---- MODULE Spec2Model ----
(***************************************************************************)
(* Model of pkg/ec2pricing/ec2pricing.go: the EC2Pricing struct with its   *)
(* on-demand and spot price caches, the two hydrate operations and the two *)
(* query operations.                                                       *)
(*                                                                         *)
(* Conventions                                                             *)
(*  - a Go string that the code searches or joins (zone names, the zone    *)
(*    filter) is a sequence of one-character strings; other strings        *)
(*    (instance types, price strings, messages) are TLA+ strings;          *)
(*  - a float64 is a pair <<n, d>>: d > 0 is the rational n/d in lowest    *)
(*    terms, <<0,0>> is NaN, <<1,0>> is +Inf and <<-1,0>> is -Inf          *)
(*    (rounding and the sign of zero are not modelled);                    *)
(*  - a *time.Time is <<>> (nil) or <<t>>; instants are minutes;           *)
(*  - a Go error is a sequence of messages, <<>> being nil; multierr       *)
(*    appends to it;                                                       *)
(*  - a Go map is a function; the nil map and the empty map both read as   *)
(*    the function with the empty domain.                                  *)
(***************************************************************************)
EXTENDS Integers, Sequences, FiniteSets, TLC

\* ------------------------------------------------------------ bounds
\* The largest number of records one paged fetch delivers.
MaxRecords == 2
\* The latest instant the wall clock is read at.
MaxTime == 1
\* The largest number of history records behind a hydrated spot cache that
\* the averaging is examined on.
MaxHistory == 3

\* The largest number of history records behind a hydrated spot cache that
\* the mean over zones is examined on.
MaxZoneHistory == 5

\* The number of goroutines calling into one EC2Pricing concurrently.
MaxGoroutines == 2

\* ------------------------------------------------------------ constants
\* time.Hour * 24, in minutes
MinutesPerDay == 1440

\* ------------------------------------------------------------ float64
NaN == <<0, 0>>
PosInf == <<1, 0>>
NegInf == <<-1, 0>>

Abs(x) == IF x < 0 THEN -x ELSE x

RECURSIVE GCD(_, _)
GCD(a, b) == IF b = 0 THEN a ELSE GCD(b, a % b)

\* The float64 with value n/d, d # 0.
Rat(n, d) ==
    LET g == GCD(Abs(n), Abs(d))
        s == IF d < 0 THEN -1 ELSE 1
    IN  <<(s * n) \div g, (s * d) \div g>>

Float(i) == <<i, 1>>
IsNaN(x) == x = NaN
IsInf(x) == x[2] = 0 /\ x[1] # 0
IsFinite(x) == x[2] > 0
Sign(x) == IF x[1] < 0 THEN -1 ELSE 1

\* x + y of IEEE 754
FAdd(x, y) ==
    IF IsNaN(x) \/ IsNaN(y) THEN NaN
    ELSE IF IsInf(x) /\ IsInf(y) THEN (IF x = y THEN x ELSE NaN)
    ELSE IF IsInf(x) THEN x
    ELSE IF IsInf(y) THEN y
    ELSE Rat(x[1] * y[2] + y[1] * x[2], x[2] * y[2])

\* x * y of IEEE 754
FMul(x, y) ==
    IF IsNaN(x) \/ IsNaN(y) THEN NaN
    ELSE IF IsInf(x) \/ IsInf(y)
         THEN (IF x[1] = 0 \/ y[1] = 0 THEN NaN
               ELSE <<Sign(x) * Sign(y), 0>>)
    ELSE Rat(x[1] * y[1], x[2] * y[2])

\* x / y of IEEE 754
FDiv(x, y) ==
    IF IsNaN(x) \/ IsNaN(y) THEN NaN
    ELSE IF IsInf(x) THEN (IF IsInf(y) THEN NaN ELSE <<Sign(x) * Sign(y), 0>>)
    ELSE IF IsInf(y) THEN Float(0)
    ELSE IF y[1] = 0 THEN (IF x[1] = 0 THEN NaN ELSE <<Sign(x), 0>>)
    ELSE Rat(x[1] * y[2], x[2] * y[1])

\* strconv.ParseFloat(s, 64) on the price strings the model uses: the value
\* and whether err == nil. "NaN", "Inf" and signed numbers are accepted.
ParseFloat(s) ==
    CASE s = "0"      -> [val |-> Float(0), ok |-> TRUE]
      [] s = "1"      -> [val |-> Float(1), ok |-> TRUE]
      [] s = "3"      -> [val |-> Float(3), ok |-> TRUE]
      [] s = "0.5"    -> [val |-> Rat(1, 2), ok |-> TRUE]
      [] s = "-1"     -> [val |-> Float(-1), ok |-> TRUE]
      [] s = "NaN"    -> [val |-> NaN, ok |-> TRUE]
      [] s = "Inf"    -> [val |-> PosInf, ok |-> TRUE]
      [] OTHER        -> [val |-> Float(0), ok |-> FALSE]

\* ------------------------------------------------------------ strings
\* strings.Contains(s, substr)
Contains(s, substr) ==
    \E i \in 0..(Len(s) - Len(substr)) : SubSeq(s, i + 1, i + Len(substr)) = substr

\* strings.Join(elems, sep)
RECURSIVE Join(_, _)
Join(elems, sep) ==
    IF elems = <<>> THEN <<>>
    ELSE IF Len(elems) = 1 THEN elems[1]
    ELSE elems[1] \o sep \o Join(Tail(elems), sep)

\* ------------------------------------------------------------ maps
EmptyMap == <<>>

\* m[k] = v of Go
Put(m, k, v) == [x \in DOMAIN m \cup {k} |-> IF x = k THEN v ELSE m[x]]

\* ------------------------------------------------------------ errors
Nil == <<>>
RequestError == <<"RequestError">>

\* ------------------------------------------------------------ paging
\* Every record of a sequence of pages, in the order delivered.
RECURSIVE Flatten(_)
Flatten(pages) ==
    IF pages = <<>> THEN <<>> ELSE Head(pages) \o Flatten(Tail(pages))

\* The ways the collaborator can page `records`: one page (possibly empty), or
\* two non-empty pages.
Pagings(records) ==
    {<<records>>} \cup
    {<<SubSeq(records, 1, c), SubSeq(records, c + 1, Len(records))>> :
        c \in 1..(Len(records) - 1)}

\* The sequences of at most n elements of S.
SeqsUpTo(S, n) == UNION {[1..k -> S] : k \in 0..n}

\* A collaborator response: the pages handed to the callback and the error the
\* call returns after them (a transport failure can follow delivered pages).
\* PagedResponses serves the callback that can stop the paging (the on-demand
\* query's); Responses serves the callbacks that always ask for the next page
\* and read the records in delivery order, whatever the page boundaries.
PagedResponses(Records) ==
    {[pages |-> p, err |-> e] :
        p \in UNION {Pagings(r) : r \in SeqsUpTo(Records, MaxRecords)},
        e \in {Nil, RequestError}}
Responses(Records) ==
    {[pages |-> <<r>>, err |-> e] :
        r \in SeqsUpTo(Records, MaxRecords), e \in {Nil, RequestError}}

\* ------------------------------------------------------------ pricing documents
\* A price-list document of the pricing API, by the fields the parser reads:
\* product.attributes.instanceType, the USD string under
\* terms.OnDemand.*.priceDimensions.*.pricePerUnit, and `missing`, the first
\* key on that path the document lacks ("none" when it has them all, "offer"
\* when terms.OnDemand holds no offer with a price dimension).
Missing ==
    {"none", "attributes", "instanceType", "terms", "OnDemand", "offer",
     "priceDimensions", "pricePerUnit", "USD"}

\* parseOndemandUnitPrice(priceList): (instance type name, price, error)
parseOndemandUnitPrice(priceList) ==
    LET fail(n, msg) == [name |-> n, price |-> Float(-1), err |-> <<msg>>]
        name == priceList.instanceType
        usd == ParseFloat(priceList.usd)
    IN  CASE priceList.missing = "attributes" ->
               fail("", "Unable to find product attributes")
          [] priceList.missing = "instanceType" ->
               fail("", "Unable to find instance type name from product attributes")
          [] priceList.missing = "terms" ->
               fail(name, "Unable to find pricing terms")
          [] priceList.missing = "OnDemand" ->
               fail(name, "Unable to find on-demand pricing terms")
          [] priceList.missing = "priceDimensions" ->
               fail(name, "Unable to find on-demand pricing dimensions")
          [] priceList.missing = "pricePerUnit" ->
               fail(name, "Unable to find on-demand price per unit in pricing dimensions")
          [] priceList.missing = "USD" ->
               fail(name, "Unable to find on-demand price per unit in USD")
          [] priceList.missing = "offer" ->
               fail(name, "Unable to parse pricing doc")
          [] OTHER ->
               IF ~usd.ok
               THEN fail(name, "Could not convert price per unit in USD to a float64")
               ELSE [name |-> name, price |-> usd.val, err |-> Nil]

\* ------------------------------------------------------------ state
VARIABLES
    onDemandCache,          \* p.onDemandCache: instance type -> price
    spotCache,              \* p.spotCache: instance type -> zone -> entries
    lastOnDemandCacheUTC,   \* p.lastOnDemandCacheUTC
    lastSpotCacheUTC,       \* p.lastSpotCacheUTC
    now,                    \* the wall clock, what time.Now() returns
    call,                   \* the call that returned last: arguments, what the
                            \* collaborator served it, and what it returned
    running                 \* the calls in flight on concurrent goroutines:
                            \* where each stands and its local variables

vars ==
    <<onDemandCache, spotCache, lastOnDemandCacheUTC, lastSpotCacheUTC, now, call,
      running>>

\* The record of a returned call. network: the calls made to the network
\* collaborator; records: the records the collaborator delivered to a
\* hydration; work: zoneToPriceEntries as the spot query left it; selected:
\* the zones the spot query averaged over.
Returned(op, instanceType, zones, network, records, price, err, work, selected) ==
    [op |-> op, instanceType |-> instanceType, zones |-> zones,
     network |-> network, records |-> records, price |-> price, err |-> err,
     work |-> work, selected |-> selected]

\* A goroutine and its call. pc: "idle" before the call, "returned" after it,
\* else the statement the goroutine executes next; hit: the outcome of a
\* query's cache test; hitOn and readFrom: the value the cache field had when
\* the query tested it and when the query read its data from it.
Goroutine(op, pc, instanceType, availabilityZones, newCache, errAPI, processingErr, cTime, hit, hitOn, readFrom, zoneToPriceEntries, price, err) ==
    [op |-> op, pc |-> pc, instanceType |-> instanceType,
     availabilityZones |-> availabilityZones, newCache |-> newCache,
     errAPI |-> errAPI, processingErr |-> processingErr, cTime |-> cTime,
     hit |-> hit,
     hitOn |-> hitOn, readFrom |-> readFrom,
     zoneToPriceEntries |-> zoneToPriceEntries, price |-> price, err |-> err]
Idle ==
    Goroutine("", "idle", "", <<>>, EmptyMap, Nil, Nil, 0, FALSE, EmptyMap, EmptyMap,
              EmptyMap, Float(0), Nil)
Goroutines == 1..MaxGoroutines

\* New(sess): both caches nil, both timestamps nil.
Init ==
    /\ onDemandCache = EmptyMap
    /\ spotCache = EmptyMap
    /\ lastOnDemandCacheUTC = <<>>
    /\ lastSpotCacheUTC = <<>>
    /\ now = 0
    /\ call = Returned("New", "", <<>>, 0, <<>>, Float(0), Nil, EmptyMap, {})
    /\ running = [g \in Goroutines |-> Idle]

\* ------------------------------------------------------------ hydration
\* `if errAPI != nil { return errAPI }` stands before the two assignments of
\* both hydrate functions: whether the new map and cTime are stored.
commitsDespiteTransportError(errAPI, processingErr) == TRUE
commitsOnlyCleanParse(errAPI, processingErr) == errAPI = Nil /\ processingErr = Nil
hydrateCommits(errAPI, processingErr) == errAPI = Nil

\* What a hydrate function returns: errAPI if there is one, else processingErr.
hydrateReturns(errAPI, processingErr) ==
    IF errAPI # Nil THEN errAPI ELSE processingErr

\* ------------------------------------------------------------ on-demand
\* The callback of HydrateOndemandCache over the delivered documents, in
\* order: the map it builds and the parse errors it collects.
RECURSIVE parseOnDemandDocs(_, _, _)
parseOnDemandDocs(docs, newOnDemandCache, processingErr) ==
    IF docs = <<>>
    THEN [cache |-> newOnDemandCache, err |-> processingErr]
    ELSE LET r == parseOndemandUnitPrice(Head(docs))
         IN  IF r.err # Nil
             THEN parseOnDemandDocs(Tail(docs), newOnDemandCache, processingErr \o r.err)
             ELSE parseOnDemandDocs(Tail(docs), Put(newOnDemandCache, r.name, r.price),
                                    processingErr)

\* newOnDemandCache and processingErr when GetProductsPages has returned:
\* the map starts empty (make), not from p.onDemandCache.
MergedOnDemandCache(docs) == parseOnDemandDocs(docs, onDemandCache, Nil)
NewOnDemandCache(docs) == parseOnDemandDocs(docs, EmptyMap, Nil)

\* HydrateOndemandCache(): the callback returns true on every page, so every
\* delivered page is parsed. The fetch takes the wall clock from now to cTime,
\* which is what time.Now() returns after it.
HydrateOndemandCache(resp, cTime) ==
    LET docs == Flatten(resp.pages)
        new == NewOnDemandCache(docs)
        commits == hydrateCommits(resp.err, new.err)
    IN  /\ onDemandCache' = IF commits THEN new.cache ELSE onDemandCache
        /\ lastOnDemandCacheUTC' = IF commits THEN <<cTime>> ELSE lastOnDemandCacheUTC
        /\ call' = Returned("HydrateOndemandCache", "", <<>>, 1, docs, Float(0),
                            hydrateReturns(resp.err, new.err), EmptyMap, {})
        /\ now' = cTime
        /\ UNCHANGED <<spotCache, lastSpotCacheUTC>>

\* The callback of GetOndemandInstanceTypeCost on one page: pricePerUnitInUSD
\* and processingErr after it, and the value it returns (true: next page).
RECURSIVE scanPriceList(_, _, _)
scanPriceList(priceList, pricePerUnitInUSD, processingErr) ==
    IF priceList = <<>>
    THEN [price |-> pricePerUnitInUSD, err |-> processingErr, more |-> FALSE]
    ELSE LET r == parseOndemandUnitPrice(Head(priceList))
         IN  IF r.err # Nil
             THEN [price |-> r.price, err |-> processingErr \o r.err, more |-> TRUE]
             ELSE scanPriceList(Tail(priceList), r.price, processingErr)

\* GetProductsPages driving that callback: pages are fetched until the
\* callback returns false or none is left; errAPI is the transport error met
\* when a further page is asked for.
RECURSIVE scanProductsPages(_, _, _, _)
scanProductsPages(pages, errAfter, pricePerUnitInUSD, processingErr) ==
    IF pages = <<>>
    THEN [price |-> pricePerUnitInUSD, err |-> processingErr, errAPI |-> errAfter]
    ELSE LET r == scanPriceList(Head(pages), pricePerUnitInUSD, processingErr)
         IN  IF r.more
             THEN scanProductsPages(Tail(pages), errAfter, r.price, r.err)
             ELSE [price |-> r.price, err |-> r.err, errAPI |-> Nil]

\* What GetOndemandInstanceTypeCost returns on a cache miss.
fetchOndemandCost(resp) ==
    LET r == scanProductsPages(resp.pages, resp.err, Float(-1), Nil)
    IN  IF r.errAPI # Nil THEN [price |-> Float(-1), err |-> r.errAPI]
        ELSE IF r.err # Nil THEN [price |-> Float(-1), err |-> r.err]
        ELSE [price |-> r.price, err |-> Nil]

\* `if price, ok := p.onDemandCache[instanceType]; ok`
neverCachedOnDemand(instanceType) == FALSE
cachedOnDemand(instanceType) == instanceType \in DOMAIN onDemandCache

\* p.onDemandCache when GetOndemandInstanceTypeCost returns after a miss with
\* `result`: the function never assigns to the map.
onDemandCacheStoringResult(instanceType, result) ==
    IF result.err = Nil THEN Put(onDemandCache, instanceType, result.price)
    ELSE onDemandCache
onDemandCacheAfterQuery(instanceType, result) == onDemandCache

\* p.lastOnDemandCacheUTC when GetOndemandInstanceTypeCost returns after a
\* miss with `result`: the function never assigns to it.
onDemandTimeStampingResult(instanceType, result) ==
    IF result.err = Nil THEN <<now>> ELSE lastOnDemandCacheUTC
onDemandTimeAfterQuery(instanceType, result) == lastOnDemandCacheUTC

\* GetOndemandInstanceTypeCost(instanceType)
GetOndemandInstanceTypeCost(instanceType, resp) ==
    /\ IF cachedOnDemand(instanceType)
       THEN /\ call' = Returned("GetOndemandInstanceTypeCost", instanceType, <<>>, 0,
                                <<>>, onDemandCache[instanceType], Nil, EmptyMap, {})
            /\ UNCHANGED <<onDemandCache, lastOnDemandCacheUTC>>
       ELSE LET r == fetchOndemandCost(resp)
            IN  /\ call' = Returned("GetOndemandInstanceTypeCost", instanceType, <<>>, 1,
                                    <<>>, r.price, r.err, EmptyMap, {})
                /\ onDemandCache' = onDemandCacheAfterQuery(instanceType, r)
                /\ lastOnDemandCacheUTC' = onDemandTimeAfterQuery(instanceType, r)
    /\ UNCHANGED <<spotCache, lastSpotCacheUTC, now>>

\* ------------------------------------------------------------ spot
\* spotPricingEntry
spotPricingEntry(t, price) == [Timestamp |-> t, SpotPrice |-> price]

\* m[k] = append(m[k], e) of Go
Append2(m, k, e) == Put(m, k, (IF k \in DOMAIN m THEN m[k] ELSE <<>>) \o <<e>>)

\* The callback of HydrateSpotCache over the delivered history records, in
\* order: the map it builds and the parse errors it collects.
RECURSIVE parseSpotHistory(_, _, _)
parseSpotHistory(history, newCache, processingErr) ==
    IF history = <<>>
    THEN [cache |-> newCache, err |-> processingErr]
    ELSE LET h == Head(history)
             f == ParseFloat(h.SpotPrice)
             zones == IF h.InstanceType \in DOMAIN newCache
                      THEN newCache[h.InstanceType] ELSE EmptyMap
         IN  IF ~f.ok
             THEN parseSpotHistory(Tail(history), newCache,
                                   processingErr \o <<"invalid syntax">>)
             ELSE parseSpotHistory(
                      Tail(history),
                      Put(newCache, h.InstanceType,
                          Append2(zones, h.AvailabilityZone,
                                  spotPricingEntry(h.Timestamp, f.val))),
                      processingErr)

\* newCache and processingErr when DescribeSpotPriceHistoryPages has returned.
NewSpotCache(history) == parseSpotHistory(history, EmptyMap, Nil)

\* The instant HydrateSpotCache stores in lastSpotCacheUTC: cTime, read after
\* the fetch (endTime is read on entry, startTime is the window's start).
spotCacheTimeWindowStart(endTime, startTime, cTime) == startTime
spotCacheTime(endTime, startTime, cTime) == cTime

\* HydrateSpotCache(days): endTime is time.Now() on entry; the fetch takes
\* the wall clock from there to cTime.
HydrateSpotCache(days, resp, cTime) ==
    LET endTime == now
        startTime == endTime - days * MinutesPerDay
        history == Flatten(resp.pages)
        new == NewSpotCache(history)
        commits == hydrateCommits(resp.err, new.err)
    IN  /\ spotCache' = IF commits THEN new.cache ELSE spotCache
        /\ lastSpotCacheUTC' =
              IF commits THEN <<spotCacheTime(endTime, startTime, cTime)>>
              ELSE lastSpotCacheUTC
        /\ call' = Returned("HydrateSpotCache", "", <<>>, 1, history, Float(0),
                            hydrateReturns(resp.err, new.err), EmptyMap, {})
        /\ now' = cTime
        /\ UNCHANGED <<onDemandCache, lastOnDemandCacheUTC>>

\* The callback of GetSpotInstanceTypeNDayAvgCost over the delivered history
\* records: zoneToPriceEntries and processingErr.
RECURSIVE parseZoneHistory(_, _, _)
parseZoneHistory(history, zoneToPriceEntries, processingErr) ==
    IF history = <<>>
    THEN [work |-> zoneToPriceEntries, err |-> processingErr]
    ELSE LET h == Head(history)
             f == ParseFloat(h.SpotPrice)
         IN  IF ~f.ok
             THEN parseZoneHistory(Tail(history), zoneToPriceEntries,
                                   processingErr \o <<"invalid syntax">>)
             ELSE parseZoneHistory(
                      Tail(history),
                      Append2(zoneToPriceEntries, h.AvailabilityZone,
                              spotPricingEntry(h.Timestamp, f.val)),
                      processingErr)

\* The copy loop of the hit branch: a fresh slice per zone holding the cached
\* entries in their cached order.
copyOfCached(zones) ==
    [z \in DOMAIN zones |->
        [i \in 1..Len(zones[z]) |-> spotPricingEntry(zones[z][i].Timestamp,
                                                     zones[z][i].SpotPrice)]]

\* sort.Slice with less = Timestamp.After: for the short slices of the model
\* Go runs its insertion sort, which moves an entry left past every entry
\* with an earlier timestamp.
RECURSIVE insertByTimestamp(_, _)
insertByTimestamp(sorted, e) ==
    IF sorted = <<>> \/ ~(e.Timestamp > sorted[Len(sorted)].Timestamp)
    THEN Append(sorted, e)
    ELSE Append(insertByTimestamp(SubSeq(sorted, 1, Len(sorted) - 1), e),
                sorted[Len(sorted)])

entriesAsGiven(entries) == entries
RECURSIVE sortByTimestampDesc(_)
sortByTimestampDesc(entries) ==
    IF entries = <<>> THEN <<>>
    ELSE insertByTimestamp(sortByTimestampDesc(SubSeq(entries, 1, Len(entries) - 1)),
                           entries[Len(entries)])

\* The loop of calculateSpotAggregate over the sorted entries from index i on
\* (1-based): priceSum += duration * entry.SpotPrice.
RECURSIVE weightedPriceSum(_, _, _)
weightedPriceSum(sorted, i, priceSum) ==
    IF i > Len(sorted) THEN priceSum
    ELSE LET prev == IF i - 1 >= 1 THEN i - 1 ELSE 1
             duration == Float(sorted[prev].Timestamp - sorted[i].Timestamp)
         IN  weightedPriceSum(sorted, i + 1,
                              FAdd(priceSum, FMul(duration, sorted[i].SpotPrice)))

\* calculateSpotAggregate(spotPriceEntries): the value returned.
calculateSpotAggregate(spotPriceEntries) ==
    IF Len(spotPriceEntries) = 0 THEN Float(0)
    ELSE LET sorted == sortByTimestampDesc(spotPriceEntries)
             endTime == sorted[1].Timestamp
             startTime == sorted[Len(sorted)].Timestamp
             totalDuration == Float(endTime - startTime)
         IN  FDiv(weightedPriceSum(sorted, 1, Float(0)), totalDuration)

\* The test of the loop over zoneToPriceEntries: whether `zone` is taken into
\* the average.
zoneSelected(availabilityZones, zone) ==
    Len(availabilityZones) = 0 \/ Contains(Join(availabilityZones, <<" ">>), zone)

\* The orders in which `range m` can visit the keys of the map m.
IterationOrders(m) ==
    {o \in [1..Cardinality(DOMAIN m) -> DOMAIN m] :
        \A i, j \in 1..Cardinality(DOMAIN m) : i # j => o[i] # o[j]}

\* The loop over zoneToPriceEntries were it to count and weigh every
\* observation of a zone.
RECURSIVE observationPriceSum(_, _, _, _, _)
observationPriceSum(work, availabilityZones, order, numOfZones, aggregateZonePriceSum) ==
    IF order = <<>>
    THEN [numOfZones |-> numOfZones, aggregateZonePriceSum |-> aggregateZonePriceSum]
    ELSE IF ~zoneSelected(availabilityZones, Head(order))
    THEN observationPriceSum(work, availabilityZones, Tail(order), numOfZones,
                             aggregateZonePriceSum)
    ELSE observationPriceSum(
             work, availabilityZones, Tail(order),
             numOfZones + Len(work[Head(order)]),
             FAdd(aggregateZonePriceSum,
                  FMul(Float(Len(work[Head(order)])),
                       calculateSpotAggregate(work[Head(order)]))))

\* The loop over zoneToPriceEntries visiting the zones of `order`, from the
\* values numOfZones and aggregateZonePriceSum have before it.
RECURSIVE zonePriceSum(_, _, _, _, _)
zonePriceSum(work, availabilityZones, order, numOfZones, aggregateZonePriceSum) ==
    IF order = <<>>
    THEN [numOfZones |-> numOfZones, aggregateZonePriceSum |-> aggregateZonePriceSum]
    ELSE IF ~zoneSelected(availabilityZones, Head(order))
    THEN zonePriceSum(work, availabilityZones, Tail(order), numOfZones,
                      aggregateZonePriceSum)
    ELSE zonePriceSum(work, availabilityZones, Tail(order), numOfZones + 1,
                      FAdd(aggregateZonePriceSum,
                           calculateSpotAggregate(work[Head(order)])))

\* Lines 129-141, the map being visited in `order`: the zones averaged over,
\* the value returned, and zoneToPriceEntries once calculateSpotAggregate has
\* sorted, in place, the slice of every such zone.
averageOverZones(work, availabilityZones, order) ==
    LET selected == {z \in DOMAIN work : zoneSelected(availabilityZones, z)}
        loop == zonePriceSum(work, availabilityZones, order, 0, Float(0))
    IN  [selected |-> selected,
         price |-> FDiv(loop.aggregateZonePriceSum, Float(loop.numOfZones)),
         work |-> [z \in DOMAIN work |->
                      IF z \in selected THEN sortByTimestampDesc(work[z])
                      ELSE work[z]]]

\* `if _, ok := p.spotCache[instanceType]; !ok`
cachedSpot(instanceType) == instanceType \in DOMAIN spotCache

\* p.spotCache when GetSpotInstanceTypeNDayAvgCost returns with `work` as its
\* zoneToPriceEntries: the function never assigns to the map, and the slices
\* it sorts are its own copies, not the cached ones.
spotCacheSharingSlices(instanceType, work) ==
    IF work = EmptyMap THEN spotCache ELSE Put(spotCache, instanceType, work)
spotCacheAfterQuery(instanceType, work) == spotCache

\* GetSpotInstanceTypeNDayAvgCost(instanceType, availabilityZones, days); the
\* loop over zoneToPriceEntries visits the map in an order of Go's choosing.
GetSpotInstanceTypeNDayAvgCost(instanceType, availabilityZones, days, resp) ==
    LET hit == cachedSpot(instanceType)
        history == Flatten(resp.pages)
        fetched == parseZoneHistory(history, EmptyMap, Nil)
        fail(err) == Returned("GetSpotInstanceTypeNDayAvgCost", instanceType,
                              availabilityZones, 1, <<>>, Float(-1), err,
                              fetched.work, {})
        zoneToPriceEntries == IF hit THEN copyOfCached(spotCache[instanceType])
                              ELSE fetched.work
    IN  /\ IF ~hit /\ resp.err # Nil
           THEN call' = fail(resp.err) /\ UNCHANGED spotCache
           ELSE IF ~hit /\ fetched.err # Nil
           THEN call' = fail(fetched.err) /\ UNCHANGED spotCache
           ELSE \E order \in IterationOrders(zoneToPriceEntries) :
                  LET avg == averageOverZones(zoneToPriceEntries,
                                              availabilityZones, order)
                  IN  /\ call' = Returned("GetSpotInstanceTypeNDayAvgCost",
                                          instanceType, availabilityZones,
                                          IF hit THEN 0 ELSE 1, <<>>,
                                          avg.price, Nil, avg.work, avg.selected)
                      /\ spotCache' = spotCacheAfterQuery(instanceType, avg.work)
        /\ UNCHANGED <<onDemandCache, lastOnDemandCacheUTC, lastSpotCacheUTC, now>>

\* ------------------------------------------------------------ inputs
\* The instance types, zones, instants and price strings that the network
\* collaborators serve and the callers ask for.
InstanceTypes == {"m5.large", "c5.large"}
UsEast1 == <<"u", "s", "-", "e", "a", "s", "t", "-", "1">>
UsEast1a == UsEast1 \o <<"a">>
UsEast1ab == UsEast1 \o <<"a", "b">>
UsEast1b == UsEast1 \o <<"b">>
DaysBack == {1}

PriceDoc(instanceType, usd, missing) ==
    [instanceType |-> instanceType, usd |-> usd, missing |-> missing]
SpotPriceRecord(instanceType, zone, t, price) ==
    [InstanceType |-> instanceType, AvailabilityZone |-> zone,
     Timestamp |-> t, SpotPrice |-> price]

\* The price-list documents and the spot history records served.
PriceDocs ==
    {PriceDoc("m5.large", "1", "none"), PriceDoc("c5.large", "3", "none"),
     PriceDoc("m5.large", "bad", "none")}
SpotHistory ==
    {SpotPriceRecord("m5.large", UsEast1a, 10, "1"),
     SpotPriceRecord("m5.large", UsEast1a, 10, "bad")}
ZoneFilters == {<<>>, <<UsEast1b>>}

\* The response passed to a query that does not call the collaborator.
NoResponse == [pages |-> <<>>, err |-> Nil]

\* The responses to a query for one instance type: the request filters on it.
ProductsOf(Docs, instanceType) ==
    IF instanceType \in DOMAIN onDemandCache THEN {NoResponse}
    ELSE PagedResponses({d \in Docs : d.instanceType = instanceType})
HistoryOf(History, instanceType) ==
    IF instanceType \in DOMAIN spotCache THEN {NoResponse}
    ELSE Responses({h \in History : h.InstanceType = instanceType})

\* ------------------------------------------------------------ specification
\* One call at a time, each returning before the next is made: no goroutine
\* is in flight. time.Now() does not run backwards: cTime is not before now.
DoHydrateOndemandCache(Docs) ==
    \E resp \in Responses(Docs), cTime \in now..MaxTime :
        HydrateOndemandCache(resp, cTime) /\ UNCHANGED running

DoGetOndemandInstanceTypeCost(Docs) ==
    \E instanceType \in InstanceTypes :
        \E resp \in ProductsOf(Docs, instanceType) :
            GetOndemandInstanceTypeCost(instanceType, resp) /\ UNCHANGED running

DoHydrateSpotCache(History) ==
    \E days \in DaysBack, resp \in Responses(History), cTime \in now..MaxTime :
        HydrateSpotCache(days, resp, cTime) /\ UNCHANGED running

DoGetSpotInstanceTypeNDayAvgCost(History, Filters) ==
    \E instanceType \in InstanceTypes, zones \in Filters, days \in DaysBack :
        \E resp \in HistoryOf(History, instanceType) :
            GetSpotInstanceTypeNDayAvgCost(instanceType, zones, days, resp)
                /\ UNCHANGED running

Next ==
    \/ DoHydrateOndemandCache(PriceDocs)
    \/ DoGetOndemandInstanceTypeCost(PriceDocs)
    \/ DoHydrateSpotCache(SpotHistory)
    \/ DoGetSpotInstanceTypeNDayAvgCost(SpotHistory, ZoneFilters)

Spec == Init /\ [][Next]_vars

\* ------------------------------------------------------------ averaging
\* The spot query on its own, from every state that New and then one
\* HydrateSpotCache over a history of several zones leaves.
ZoneHistory ==
    {SpotPriceRecord("m5.large", UsEast1a, 10, "1"),
     SpotPriceRecord("m5.large", UsEast1a, 20, "3"),
     SpotPriceRecord("m5.large", UsEast1a, 40, "0.5"),
     SpotPriceRecord("m5.large", UsEast1ab, 10, "3"),
     SpotPriceRecord("m5.large", UsEast1b, 20, "1"),
     SpotPriceRecord("m5.large", UsEast1b, 20, "bad")}
ZoneFiltersAverage ==
    {<<>>, <<UsEast1a>>, <<UsEast1ab>>, <<UsEast1b>>, <<UsEast1a, UsEast1b>>}
\* The records served to a query that misses the hydrated cache.
ZoneHistoryOnMiss ==
    {SpotPriceRecord("m5.large", UsEast1a, 10, "1"),
     SpotPriceRecord("m5.large", UsEast1ab, 10, "3"),
     SpotPriceRecord("m5.large", UsEast1b, 20, "bad")}

InitAverage ==
    \E history \in SeqsUpTo(ZoneHistory, MaxHistory) :
        /\ onDemandCache = EmptyMap
        /\ lastOnDemandCacheUTC = <<>>
        /\ spotCache = NewSpotCache(history).cache
        /\ lastSpotCacheUTC = <<0>>
        /\ now = 0
        /\ call = Returned("HydrateSpotCache", "", <<>>, 1, history, Float(0),
                           hydrateReturns(Nil, NewSpotCache(history).err),
                           EmptyMap, {})
        /\ running = [g \in Goroutines |-> Idle]

NextAverage == DoGetSpotInstanceTypeNDayAvgCost(ZoneHistoryOnMiss, ZoneFiltersAverage)

SpecAverage == InitAverage /\ [][NextAverage]_vars

\* ------------------------------------------------------------ mean over zones
\* The spot query on its own, from every state that New and then one
\* HydrateSpotCache over a history of two zones leaves: us-east-1a with up to
\* three observations and us-east-1b with up to two.
CrossZoneHistory ==
    {SpotPriceRecord("m5.large", UsEast1a, 10, "1"),
     SpotPriceRecord("m5.large", UsEast1a, 20, "3"),
     SpotPriceRecord("m5.large", UsEast1a, 40, "0.5"),
     SpotPriceRecord("m5.large", UsEast1b, 10, "3"),
     SpotPriceRecord("m5.large", UsEast1b, 20, "1")}
ZoneFiltersCrossZone == {<<>>, <<UsEast1b>>}

InitCrossZone ==
    \E history \in SeqsUpTo(CrossZoneHistory, MaxZoneHistory) :
        /\ onDemandCache = EmptyMap
        /\ lastOnDemandCacheUTC = <<>>
        /\ spotCache = NewSpotCache(history).cache
        /\ lastSpotCacheUTC = <<0>>
        /\ now = 0
        /\ call = Returned("HydrateSpotCache", "", <<>>, 1, history, Float(0),
                           hydrateReturns(Nil, NewSpotCache(history).err),
                           EmptyMap, {})
        /\ running = [g \in Goroutines |-> Idle]

NextCrossZone ==
    DoGetSpotInstanceTypeNDayAvgCost(ZoneHistoryOnMiss, ZoneFiltersCrossZone)

SpecCrossZone == InitCrossZone /\ [][NextCrossZone]_vars

\* ------------------------------------------------------------ goroutines
\* The four functions called from concurrent goroutines on one EC2Pricing.
\* The struct has no lock: a call is a sequence of steps, one per read or
\* write of a field of the struct, the statements on local variables
\* belonging to the step of the access that follows them or, at the end of
\* the call, precedes them. Goroutines are numbered in the order they make
\* their calls, and each makes one call.
Starts(g) ==
    /\ running[g].pc = "idle"
    /\ IF g = 1 THEN TRUE ELSE running[g - 1].pc # "idle"
At(g, op, pc) == running[g].op = op /\ running[g].pc = pc
Becomes(g, goroutine) == running' = [running EXCEPT ![g] = goroutine]

\* HydrateSpotCache up to cTime := time.Now().UTC(): the fetch into the local
\* newCache, the return on errAPI, the reading of the clock.
HydrateSpotCacheFetch(g, days, resp, cTime) ==
    LET new == NewSpotCache(Flatten(resp.pages))
    IN  /\ Starts(g)
        /\ Becomes(g, IF hydrateCommits(resp.err, new.err)
                      THEN Goroutine("HydrateSpotCache", "spotCache", "", <<>>,
                                     new.cache, resp.err, new.err,
                                     cTime, FALSE, EmptyMap,
                                     EmptyMap, EmptyMap, Float(0), Nil)
                      ELSE Goroutine("HydrateSpotCache", "returned", "", <<>>,
                                     new.cache, resp.err, new.err,
                                     cTime, FALSE, EmptyMap,
                                     EmptyMap, EmptyMap, Float(0),
                                     hydrateReturns(resp.err, new.err)))
        /\ now' = cTime
        /\ UNCHANGED <<onDemandCache, spotCache, lastOnDemandCacheUTC,
                       lastSpotCacheUTC, call>>

\* p.spotCache = newCache
HydrateSpotCacheStoreCache(g) ==
    /\ At(g, "HydrateSpotCache", "spotCache")
    /\ spotCache' = running[g].newCache
    /\ Becomes(g, [running[g] EXCEPT !.pc = "lastSpotCacheUTC"])
    /\ UNCHANGED <<onDemandCache, lastOnDemandCacheUTC, lastSpotCacheUTC, now, call>>

\* p.lastSpotCacheUTC = &cTime; return processingErr
HydrateSpotCacheStoreTime(g) ==
    /\ At(g, "HydrateSpotCache", "lastSpotCacheUTC")
    /\ lastSpotCacheUTC' = <<running[g].cTime>>
    /\ Becomes(g, [running[g] EXCEPT !.pc = "returned",
                                     !.err = running[g].processingErr])
    /\ UNCHANGED <<onDemandCache, spotCache, lastOnDemandCacheUTC, now, call>>

\* HydrateOndemandCache up to cTime := time.Now().UTC()
HydrateOndemandCacheFetch(g, resp, cTime) ==
    LET new == NewOnDemandCache(Flatten(resp.pages))
    IN  /\ Starts(g)
        /\ Becomes(g, IF hydrateCommits(resp.err, new.err)
                      THEN Goroutine("HydrateOndemandCache", "onDemandCache", "",
                                     <<>>, new.cache, resp.err, new.err,
                                     cTime, FALSE,
                                     EmptyMap, EmptyMap, EmptyMap, Float(0), Nil)
                      ELSE Goroutine("HydrateOndemandCache", "returned", "", <<>>,
                                     new.cache, resp.err, new.err,
                                     cTime, FALSE, EmptyMap,
                                     EmptyMap, EmptyMap, Float(0),
                                     hydrateReturns(resp.err, new.err)))
        /\ now' = cTime
        /\ UNCHANGED <<onDemandCache, spotCache, lastOnDemandCacheUTC,
                       lastSpotCacheUTC, call>>

\* p.onDemandCache = newOnDemandCache
HydrateOndemandCacheStoreCache(g) ==
    /\ At(g, "HydrateOndemandCache", "onDemandCache")
    /\ onDemandCache' = running[g].newCache
    /\ Becomes(g, [running[g] EXCEPT !.pc = "lastOnDemandCacheUTC"])
    /\ UNCHANGED <<spotCache, lastOnDemandCacheUTC, lastSpotCacheUTC, now, call>>

\* p.lastOnDemandCacheUTC = &cTime; return processingErr. The assignment is
\* to the on-demand timestamp only, not to both timestamps.
HydrateOndemandCacheStampingBoth(g) ==
    /\ At(g, "HydrateOndemandCache", "lastOnDemandCacheUTC")
    /\ lastOnDemandCacheUTC' = <<running[g].cTime>>
    /\ lastSpotCacheUTC' = <<running[g].cTime>>
    /\ Becomes(g, [running[g] EXCEPT !.pc = "returned",
                                     !.err = running[g].processingErr])
    /\ UNCHANGED <<onDemandCache, spotCache, now, call>>
HydrateOndemandCacheStoreTime(g) ==
    /\ At(g, "HydrateOndemandCache", "lastOnDemandCacheUTC")
    /\ lastOnDemandCacheUTC' = <<running[g].cTime>>
    /\ Becomes(g, [running[g] EXCEPT !.pc = "returned",
                                     !.err = running[g].processingErr])
    /\ UNCHANGED <<onDemandCache, spotCache, lastSpotCacheUTC, now, call>>

\* `if _, ok := p.spotCache[instanceType]; !ok`: the first read of p.spotCache.
GetSpotTestCache(g, instanceType, availabilityZones) ==
    /\ Starts(g)
    /\ Becomes(g, Goroutine("GetSpotInstanceTypeNDayAvgCost",
                            IF cachedSpot(instanceType) THEN "copy" ELSE "fetch",
                            instanceType, availabilityZones, EmptyMap, Nil, Nil, 0,
                            cachedSpot(instanceType), spotCache, EmptyMap,
                            EmptyMap, Float(0), Nil))
    /\ UNCHANGED <<onDemandCache, spotCache, lastOnDemandCacheUTC,
                   lastSpotCacheUTC, now, call>>

\* The rest of a spot query once zoneToPriceEntries is filled: the loop over
\* it in one of the orders Go can visit it in, and the return.
SpotQueryReturns(g, readFrom, zoneToPriceEntries) ==
    \E order \in IterationOrders(zoneToPriceEntries) :
        LET avg == averageOverZones(zoneToPriceEntries,
                                    running[g].availabilityZones, order)
        IN  Becomes(g, [running[g] EXCEPT !.pc = "returned",
                                          !.readFrom = readFrom,
                                          !.zoneToPriceEntries = avg.work,
                                          !.price = avg.price,
                                          !.err = Nil])

\* The miss branch: the fetch, the returns on errAPI and processingErr, the
\* average of what was fetched.
GetSpotFetch(g, resp) ==
    LET fetched == parseZoneHistory(Flatten(resp.pages), EmptyMap, Nil)
        fails(err) == Becomes(g, [running[g] EXCEPT !.pc = "returned",
                                                    !.errAPI = resp.err,
                                                    !.processingErr = fetched.err,
                                                    !.price = Float(-1),
                                                    !.err = err])
    IN  /\ At(g, "GetSpotInstanceTypeNDayAvgCost", "fetch")
        /\ IF resp.err # Nil THEN fails(resp.err)
           ELSE IF fetched.err # Nil THEN fails(fetched.err)
           ELSE SpotQueryReturns(g, EmptyMap, fetched.work)
        /\ UNCHANGED <<onDemandCache, spotCache, lastOnDemandCacheUTC,
                       lastSpotCacheUTC, now, call>>

\* The hit branch: `range p.spotCache[instanceType]`, the second read of
\* p.spotCache (a key the map lacks reads as the nil map, over which the
\* loop does not iterate), then the average of the copies.
GetSpotCopy(g) ==
    LET cached == IF cachedSpot(running[g].instanceType)
                  THEN spotCache[running[g].instanceType] ELSE EmptyMap
    IN  /\ At(g, "GetSpotInstanceTypeNDayAvgCost", "copy")
        /\ SpotQueryReturns(g, spotCache, copyOfCached(cached))
        /\ UNCHANGED <<onDemandCache, spotCache, lastOnDemandCacheUTC,
                       lastSpotCacheUTC, now, call>>

\* `if price, ok := p.onDemandCache[instanceType]; ok { return price, nil }`:
\* the one read of p.onDemandCache.
GetOndemandTestCache(g, instanceType) ==
    /\ Starts(g)
    /\ Becomes(g, IF cachedOnDemand(instanceType)
                  THEN Goroutine("GetOndemandInstanceTypeCost", "returned",
                                 instanceType, <<>>, EmptyMap, Nil, Nil, 0, TRUE,
                                 onDemandCache, onDemandCache, EmptyMap,
                                 onDemandCache[instanceType], Nil)
                  ELSE Goroutine("GetOndemandInstanceTypeCost", "fetch",
                                 instanceType, <<>>, EmptyMap, Nil, Nil, 0, FALSE,
                                 onDemandCache, EmptyMap, EmptyMap, Float(0), Nil))
    /\ UNCHANGED <<onDemandCache, spotCache, lastOnDemandCacheUTC,
                   lastSpotCacheUTC, now, call>>

\* The miss branch of the on-demand query.
GetOndemandFetch(g, resp) ==
    LET r == fetchOndemandCost(resp)
    IN  /\ At(g, "GetOndemandInstanceTypeCost", "fetch")
        /\ Becomes(g, [running[g] EXCEPT !.pc = "returned", !.price = r.price,
                                         !.err = r.err])
        /\ UNCHANGED <<onDemandCache, spotCache, lastOnDemandCacheUTC,
                       lastSpotCacheUTC, now, call>>

\* What the collaborators serve the concurrent calls, and the caches the
\* calls find: both hydrated, with m5.large only.
ConcurrentDocs == {PriceDoc("c5.large", "3", "none")}
ConcurrentHistory == {SpotPriceRecord("c5.large", UsEast1a, 10, "3")}
HydratedOnDemandCache ==
    NewOnDemandCache(<<PriceDoc("m5.large", "1", "none")>>).cache
HydratedSpotCache ==
    NewSpotCache(<<SpotPriceRecord("m5.large", UsEast1a, 10, "1"),
                   SpotPriceRecord("m5.large", UsEast1a, 20, "3")>>).cache

\* New, HydrateOndemandCache and HydrateSpotCache have returned at instant 0.
InitConcurrent ==
    /\ onDemandCache = HydratedOnDemandCache
    /\ spotCache = HydratedSpotCache
    /\ lastOnDemandCacheUTC = <<0>>
    /\ lastSpotCacheUTC = <<0>>
    /\ now = 0
    /\ call = Returned("HydrateSpotCache", "", <<>>, 1, <<>>, Float(0), Nil,
                       EmptyMap, {})
    /\ running = [g \in Goroutines |-> Idle]

NextHydrations ==
    \/ \E g \in Goroutines, days \in DaysBack, resp \in Responses(ConcurrentHistory),
          cTime \in now..MaxTime : HydrateSpotCacheFetch(g, days, resp, cTime)
    \/ \E g \in Goroutines : HydrateSpotCacheStoreCache(g)
    \/ \E g \in Goroutines : HydrateSpotCacheStoreTime(g)
    \/ \E g \in Goroutines, resp \in Responses(ConcurrentDocs),
          cTime \in now..MaxTime : HydrateOndemandCacheFetch(g, resp, cTime)
    \/ \E g \in Goroutines : HydrateOndemandCacheStoreCache(g)
    \/ \E g \in Goroutines : HydrateOndemandCacheStoreTime(g)

NextQueries ==
    \/ \E g \in Goroutines, instanceType \in InstanceTypes :
          GetSpotTestCache(g, instanceType, <<>>)
    \/ \E g \in Goroutines :
          \E resp \in Responses({h \in ConcurrentHistory :
                                    h.InstanceType = running[g].instanceType}) :
              GetSpotFetch(g, resp)
    \/ \E g \in Goroutines : GetSpotCopy(g)
    \/ \E g \in Goroutines, instanceType \in InstanceTypes :
          GetOndemandTestCache(g, instanceType)
    \/ \E g \in Goroutines :
          \E resp \in PagedResponses({d \in ConcurrentDocs :
                                         d.instanceType = running[g].instanceType}) :
              GetOndemandFetch(g, resp)

NextConcurrent == NextHydrations \/ NextQueries

\* Hydrations only, and hydrations and queries.
SpecHydrations == InitConcurrent /\ [][NextHydrations]_vars
SpecConcurrent == InitConcurrent /\ [][NextConcurrent]_vars

\* ------------------------------------------------------------ upstream prices
\* The hydrations on their own, served price strings that strconv.ParseFloat
\* accepts although they are no prices.
UpstreamPrices == {"-1", "NaN", "Inf"}
UpstreamDocs == {PriceDoc("m5.large", usd, "none") : usd \in UpstreamPrices}
UpstreamHistory ==
    {SpotPriceRecord("m5.large", UsEast1a, 10, price) : price \in UpstreamPrices}

NextUpstream ==
    \/ DoHydrateOndemandCache(UpstreamDocs)
    \/ DoHydrateSpotCache(UpstreamHistory)

SpecUpstream == Init /\ [][NextUpstream]_vars

\* ------------------------------------------------------------ properties
OnDemandQuery == "GetOndemandInstanceTypeCost"
SpotQuery == "GetSpotInstanceTypeNDayAvgCost"
OnDemandHydration == "HydrateOndemandCache"
SpotHydration == "HydrateSpotCache"

\* The positions of the delivered documents, and of the delivered history
\* records, that parse.
ParsedDocs(docs) ==
    {i \in 1..Len(docs) : parseOndemandUnitPrice(docs[i]).err = Nil}
ParsedHistory(history) ==
    {i \in 1..Len(history) : ParseFloat(history[i].SpotPrice).ok}

Max(S) == CHOOSE x \in S : \A y \in S : y <= x

\* C1: a query for an instance type that is a key of its cache makes no call
\* to the network collaborator, whatever hydrations and queries came before.
C1_HitMakesNoNetworkCall ==
    [][/\ (call'.op = OnDemandQuery /\ call'.instanceType \in DOMAIN onDemandCache)
            => call'.network = 0
       /\ (call'.op = SpotQuery /\ call'.instanceType \in DOMAIN spotCache)
            => call'.network = 0]_vars

\* A spot query served from the cache, after the on-demand cache has been
\* hydrated and queried too.
C1_Witness ==
    /\ call.op = SpotQuery
    /\ call.instanceType \in DOMAIN spotCache
    /\ call.network = 0
    /\ onDemandCache # EmptyMap

\* C2: a hydration that ends with a transport error leaves its cache and its
\* freshness timestamp as they were, whatever had been delivered and parsed
\* before the error.
C2_TransportErrorLeavesCache ==
    [][/\ (call'.op = OnDemandHydration /\ call'.err = RequestError)
            => UNCHANGED <<onDemandCache, lastOnDemandCacheUTC>>
       /\ (call'.op = SpotHydration /\ call'.err = RequestError)
            => UNCHANGED <<spotCache, lastSpotCacheUTC>>]_vars

\* A spot hydration failed after delivering records that parse into a map
\* other than the cache it found, which is kept.
C2_Witness ==
    /\ call.op = SpotHydration
    /\ call.err = RequestError
    /\ ParsedHistory(call.records) # {}
    /\ spotCache # EmptyMap
    /\ NewSpotCache(call.records).cache # spotCache

\* C3: a hydration whose fetch succeeds while some records do not parse is
\* not aborted: the cache holds the keys of the records that parsed, the
\* timestamp is stamped with the instant read after the fetch, and the error
\* returned holds one entry per record that failed.
C3_PartialParseCommits ==
    /\ (/\ call.op = OnDemandHydration
        /\ call.err # RequestError
        /\ ParsedDocs(call.records) # 1..Len(call.records))
       => /\ DOMAIN onDemandCache =
                {call.records[i].instanceType : i \in ParsedDocs(call.records)}
          /\ lastOnDemandCacheUTC = <<now>>
          /\ call.err # Nil
          /\ Len(call.err) = Len(call.records) - Cardinality(ParsedDocs(call.records))
    /\ (/\ call.op = SpotHydration
        /\ call.err # RequestError
        /\ ParsedHistory(call.records) # 1..Len(call.records))
       => /\ DOMAIN spotCache =
                {call.records[i].InstanceType : i \in ParsedHistory(call.records)}
          /\ lastSpotCacheUTC = <<now>>
          /\ call.err # Nil
          /\ Len(call.err) = Len(call.records) - Cardinality(ParsedHistory(call.records))

\* An on-demand hydration that parsed one document and failed on another.
C3_Witness ==
    /\ call.op = OnDemandHydration
    /\ call.err # RequestError
    /\ Len(call.records) = 2
    /\ Cardinality(ParsedDocs(call.records)) = 1
    /\ onDemandCache # EmptyMap

\* C4: after a hydration that commits, the cache holds exactly what the
\* records of this fetch parse to: per instance type the price of the last
\* document that parsed (on-demand), per instance type and zone the entries
\* of the records that parsed, in the order delivered (spot); nothing else.
C4_HydrationReplacesWholesale ==
    /\ (call.op = OnDemandHydration /\ call.err # RequestError)
       => LET docs == call.records
              ok == ParsedDocs(docs)
              last(k) == Max({i \in ok : docs[i].instanceType = k})
          IN  /\ DOMAIN onDemandCache = {docs[i].instanceType : i \in ok}
              /\ \A k \in DOMAIN onDemandCache :
                    onDemandCache[k] = ParseFloat(docs[last(k)].usd).val
    /\ (call.op = SpotHydration /\ call.err # RequestError)
       => LET history == call.records
              ok == ParsedHistory(history)
              of(k, z) == {i \in ok : /\ history[i].InstanceType = k
                                      /\ history[i].AvailabilityZone = z}
          IN  /\ DOMAIN spotCache = {history[i].InstanceType : i \in ok}
              /\ \A k \in DOMAIN spotCache :
                    /\ DOMAIN spotCache[k] =
                          {history[i].AvailabilityZone :
                              i \in {j \in ok : history[j].InstanceType = k}}
                    /\ \A z \in DOMAIN spotCache[k] :
                          /\ Len(spotCache[k][z]) = Cardinality(of(k, z))
                          /\ \A n \in 1..Len(spotCache[k][z]) :
                                \E i \in of(k, z) :
                                    /\ Cardinality({j \in of(k, z) : j <= i}) = n
                                    /\ spotCache[k][z][n].Timestamp = history[i].Timestamp
                                    /\ spotCache[k][z][n].SpotPrice =
                                          ParseFloat(history[i].SpotPrice).val

\* An on-demand hydration committed over a cache that had been hydrated
\* before, and a key is gone: this fetch delivered c5.large only.
C4_Witness ==
    /\ call.op = OnDemandHydration
    /\ call.err = Nil
    /\ DOMAIN onDemandCache = {"c5.large"}
    /\ lastOnDemandCacheUTC = <<1>>
    /\ lastSpotCacheUTC # <<>>

\* C5: both timestamps are nil after New and stay nil until a hydration of
\* their cache commits; a hydration that commits leaves its timestamp non-nil
\* and not earlier than the wall clock read when the call started.
C5_TimestampSetByHydration ==
    /\ lastOnDemandCacheUTC = <<>> /\ lastSpotCacheUTC = <<>>
    /\ [][/\ (call'.op = OnDemandHydration /\ call'.err # RequestError)
               => (lastOnDemandCacheUTC' # <<>> /\ lastOnDemandCacheUTC'[1] >= now)
          /\ (call'.op = SpotHydration /\ call'.err # RequestError)
               => (lastSpotCacheUTC' # <<>> /\ lastSpotCacheUTC'[1] >= now)
          /\ lastOnDemandCacheUTC' # lastOnDemandCacheUTC
               => (call'.op = OnDemandHydration /\ call'.err # RequestError)
          /\ lastSpotCacheUTC' # lastSpotCacheUTC
               => (call'.op = SpotHydration /\ call'.err # RequestError)]_vars

\* A spot hydration committed, the clock having advanced while it fetched,
\* and the on-demand cache has not been hydrated.
C5_Witness ==
    /\ call.op = SpotHydration
    /\ call.err # RequestError
    /\ lastSpotCacheUTC = <<1>>
    /\ lastOnDemandCacheUTC = <<>>

\* C6: a query, hit or miss, failed or not, leaves both freshness timestamps
\* as they were.
C6_QueryKeepsTimestamps ==
    [][call'.op \in {OnDemandQuery, SpotQuery}
          => UNCHANGED <<lastOnDemandCacheUTC, lastSpotCacheUTC>>]_vars

\* An on-demand query missed, fetched a price, and the on-demand timestamp is
\* still nil while the clock has moved on.
C6_Witness ==
    /\ call.op = OnDemandQuery
    /\ call.network = 1
    /\ call.err = Nil
    /\ call.price = Float(1)
    /\ lastOnDemandCacheUTC = <<>>
    /\ now = 1

C8_SpotQueryKeepsCache ==
    [][call'.op = SpotQuery => spotCache' = spotCache]_vars

\* A spot query was served from the cache and averaged a zone whose entries
\* it sorted into an order other than the cached one.
C8_Witness ==
    /\ call.op = SpotQuery
    /\ call.network = 0
    /\ call.instanceType \in DOMAIN spotCache
    /\ \E z \in call.selected :
          /\ Len(call.work[z]) = 2
          /\ call.work[z] # spotCache[call.instanceType][z]
          /\ call.work[z][1].Timestamp > call.work[z][2].Timestamp

\* C9 as claimed: with a non-empty zone filter, the zones of the data that a
\* spot query averages over are exactly those whose name is an entry of the
\* filter.
C9_ExactZoneMembership ==
    (call.op = SpotQuery /\ call.err = Nil /\ call.zones # <<>>)
        => call.selected =
              {z \in DOMAIN call.work : \E i \in 1..Len(call.zones) : call.zones[i] = z}

\* C10 as claimed: a spot query that averages over no zone returns an error.
C10_NoZoneIsAnError ==
    (call.op = SpotQuery /\ call.selected = {}) => call.err # Nil

\* C11 as claimed: a successful spot query that averages a zone holding
\* exactly one observation does not return NaN, and when that zone is the
\* only one averaged it returns the observation's price.
C11_SingleObservationIsItsPrice ==
    (call.op = SpotQuery /\ call.err = Nil)
        => \A z \in call.selected :
              Len(call.work[z]) = 1
                  => /\ ~IsNaN(call.price)
                     /\ call.selected = {z}
                            => call.price = call.work[z][1].SpotPrice

\* The time-weighted average of a zone's observations, stated on the set of
\* observations and not on any order of them: the newest observation weighs
\* 0, every other one the time from it to the next more recent one, and the
\* weighted prices are divided by the time from the oldest to the newest.
DistinctTimestamps(entries) ==
    \A i, j \in 1..Len(entries) :
        i # j => entries[i].Timestamp # entries[j].Timestamp
Timestamps(entries) == {entries[i].Timestamp : i \in 1..Len(entries)}
Min(S) == CHOOSE x \in S : \A y \in S : x <= y
WeightOf(entries, i) ==
    LET later == {t \in Timestamps(entries) : t > entries[i].Timestamp}
    IN  IF later = {} THEN 0 ELSE Min(later) - entries[i].Timestamp
RECURSIVE WeightedPrices(_, _)
WeightedPrices(entries, I) ==
    IF I = {} THEN Float(0)
    ELSE LET i == CHOOSE x \in I : TRUE
         IN  FAdd(WeightedPrices(entries, I \ {i}),
                  FMul(Float(WeightOf(entries, i)), entries[i].SpotPrice))
TimeWeightedAverage(entries) ==
    FDiv(WeightedPrices(entries, 1..Len(entries)),
         Float(Max(Timestamps(entries)) - Min(Timestamps(entries))))

\* C12: a successful spot query that averages exactly one zone, holding two
\* or more observations at distinct timestamps in whatever order, returns
\* the time-weighted average of the zone's observations; for two
\* observations that is the price of the older one.
C12_TimeWeightedAverage ==
    (call.op = SpotQuery /\ call.err = Nil)
        => \A z \in call.selected :
              (/\ call.selected = {z}
               /\ Len(call.work[z]) >= 2
               /\ DistinctTimestamps(call.work[z]))
                  => /\ call.price = TimeWeightedAverage(call.work[z])
                     /\ Len(call.work[z]) = 2
                            => \E i, j \in 1..2 :
                                  /\ call.work[z][i].Timestamp
                                        < call.work[z][j].Timestamp
                                  /\ call.price = call.work[z][i].SpotPrice

\* A spot query was served from a cache holding the three observations of
\* us-east-1a in an order that is not newest first, and returned
\* (20 * $3 + 10 * $1) / 30.
C12_Witness ==
    /\ call.op = SpotQuery
    /\ call.err = Nil
    /\ call.network = 0
    /\ call.selected = {UsEast1a}
    /\ Len(call.work[UsEast1a]) = 3
    /\ DistinctTimestamps(call.work[UsEast1a])
    /\ spotCache[call.instanceType][UsEast1a][1].Timestamp
          < spotCache[call.instanceType][UsEast1a][3].Timestamp
    /\ call.price = Rat(7, 3)

\* The unweighted arithmetic mean of the per-zone averages of the zones Z of
\* `work`, stated on the set Z.
RECURSIVE SumOfZoneAverages(_, _)
SumOfZoneAverages(work, Z) ==
    IF Z = {} THEN Float(0)
    ELSE LET z == CHOOSE x \in Z : TRUE
         IN  FAdd(SumOfZoneAverages(work, Z \ {z}), calculateSpotAggregate(work[z]))
MeanOfZoneAverages(work, Z) ==
    FDiv(SumOfZoneAverages(work, Z), Float(Cardinality(Z)))

\* C13: a successful spot query that averages at least one zone returns the
\* unweighted mean of the per-zone averages of the zones it selects, which
\* are all the zones of the data when the filter is empty, in whatever order
\* the zones are visited and however many observations each holds.
C13_UnweightedMeanOverZones ==
    (call.op = SpotQuery /\ call.err = Nil /\ call.selected # {})
        => /\ call.zones = <<>> => call.selected = DOMAIN call.work
           /\ call.selected = {z \in DOMAIN call.work : zoneSelected(call.zones, z)}
           /\ call.price = MeanOfZoneAverages(call.work, call.selected)

\* A spot query without a filter was served from a cache holding three
\* observations of us-east-1a (average 7/3) and two of us-east-1b (average
\* 3), and returned (7/3 + 3) / 2.
C13_Witness ==
    /\ call.op = SpotQuery
    /\ call.err = Nil
    /\ call.zones = <<>>
    /\ call.selected = {UsEast1a, UsEast1b}
    /\ Len(call.work[UsEast1a]) = 3
    /\ Len(call.work[UsEast1b]) = 2
    /\ TimeWeightedAverage(call.work[UsEast1a]) = Rat(7, 3)
    /\ TimeWeightedAverage(call.work[UsEast1b]) = Float(3)
    /\ call.price = Rat(8, 3)

\* C14 as claimed: a query that found its instance type in the cache has
\* read its data from the cache value it took the hit decision on, whatever
\* hydration ran beside it.
C14_QuerySeesOneSnapshot ==
    \A g \in Goroutines :
        (running[g].pc = "returned" /\ running[g].hit)
            => running[g].readFrom = running[g].hitOn

\* C15 as claimed: a query returns the sentinel price -1 exactly when it
\* returns an error.
C15_SentinelExactlyOnError ==
    call.op \in {OnDemandQuery, SpotQuery}
        => (call.price = Float(-1) <=> call.err # Nil)

\* No call is in flight.
Quiescent == \A g \in Goroutines : running[g].pc \in {"idle", "returned"}
\* The goroutines whose hydration `op` has returned after storing its map.
Committed(op) ==
    {g \in Goroutines :
        /\ running[g].op = op
        /\ running[g].pc = "returned"
        /\ hydrateCommits(running[g].errAPI, running[g].processingErr)}

\* C16 as claimed: when no call is in flight and some hydration of a cache
\* has stored its map, the cache and its timestamp are the map and the
\* instant of one and the same hydration call.
C16_TimestampOfInstalledMap ==
    Quiescent
        => /\ Committed(SpotHydration) # {}
                => \E g \in Committed(SpotHydration) :
                      /\ spotCache = running[g].newCache
                      /\ lastSpotCacheUTC = <<running[g].cTime>>
           /\ Committed(OnDemandHydration) # {}
                => \E g \in Committed(OnDemandHydration) :
                      /\ onDemandCache = running[g].newCache
                      /\ lastOnDemandCacheUTC = <<running[g].cTime>>

\* The goroutines that have called `op`, and the fields a hydration `op`
\* called by the one goroutine g leaves behind when it runs alone from the
\* hydrated state: its own map and instant if it stored them, else the map
\* and instant it found.
Calling(op) == {g \in Goroutines : running[g].op = op}
AloneLeaves(g, cacheFound, timeFound) ==
    IF hydrateCommits(running[g].errAPI, running[g].processingErr)
    THEN <<running[g].newCache, <<running[g].cTime>>>>
    ELSE <<cacheFound, timeFound>>
MovedBy(op) ==
    \E g \in Goroutines : running'[g] # running[g] /\ running'[g].op = op

\* C17: a step of HydrateOndemandCache leaves spotCache and lastSpotCacheUTC
\* unchanged and a step of HydrateSpotCache leaves onDemandCache and
\* lastOnDemandCacheUTC unchanged; and once one call of each, run
\* concurrently, have returned, every field is what its hydration leaves
\* when run alone, which is the outcome of the two calls made one after the
\* other in either order.
C17_HydrationsWriteDisjointState ==
    /\ [](Quiescent
            => /\ \A g \in Goroutines :
                     Calling(SpotHydration) = {g}
                        => <<spotCache, lastSpotCacheUTC>>
                              = AloneLeaves(g, HydratedSpotCache, <<0>>)
               /\ \A g \in Goroutines :
                     Calling(OnDemandHydration) = {g}
                        => <<onDemandCache, lastOnDemandCacheUTC>>
                              = AloneLeaves(g, HydratedOnDemandCache, <<0>>)
               /\ Calling(SpotHydration) = {}
                     => <<spotCache, lastSpotCacheUTC>> = <<HydratedSpotCache, <<0>>>>
               /\ Calling(OnDemandHydration) = {}
                     => <<onDemandCache, lastOnDemandCacheUTC>>
                           = <<HydratedOnDemandCache, <<0>>>>)
    /\ [][/\ MovedBy(OnDemandHydration)
                => UNCHANGED <<spotCache, lastSpotCacheUTC>>
          /\ MovedBy(SpotHydration)
                => UNCHANGED <<onDemandCache, lastOnDemandCacheUTC>>]_vars

\* One goroutine is in HydrateSpotCache and another in HydrateOndemandCache,
\* each between its two assignments: both maps are stored, neither instant.
C17_Witness ==
    \E g, h \in Goroutines :
        /\ At(g, SpotHydration, "lastSpotCacheUTC")
        /\ At(h, OnDemandHydration, "lastOnDemandCacheUTC")
        /\ spotCache = running[g].newCache /\ spotCache # HydratedSpotCache
        /\ onDemandCache = running[h].newCache
        /\ onDemandCache # HydratedOnDemandCache
        /\ lastSpotCacheUTC = <<0>> /\ running[g].cTime = 1
        /\ lastOnDemandCacheUTC = <<0>>

\* C18 as claimed: every price held by the on-demand cache and every
\* SpotPrice held by the spot cache is a finite number that is not negative.
ValidPrice(x) == IsFinite(x) /\ x[1] >= 0
C18_StoredPricesValid ==
    /\ \A instanceType \in DOMAIN onDemandCache :
          ValidPrice(onDemandCache[instanceType])
    /\ \A instanceType \in DOMAIN spotCache :
          \A zone \in DOMAIN spotCache[instanceType] :
              \A i \in 1..Len(spotCache[instanceType][zone]) :
                  ValidPrice(spotCache[instanceType][zone][i].SpotPrice)

====
